---- MODULE Spec2Model ----
(***************************************************************************)
(* RuntimeScope of explorer/interpreter/action.cpp: the binding            *)
(* environment of the explorer, its ownership of heap allocations, and the *)
(* heap contract it consumes, and the text Action::Print and               *)
(* RuntimeScope::Print write.  One action per operation; a failed          *)
(* CARBON_CHECK terminates the process (variable fatal).                   *)
(***************************************************************************)
EXTENDS Integers, Sequences, FiniteSets, TLC

\* ------------------------------------------------------------------ bounds
\* Number of calls a run makes after the first two scopes are constructed.
MaxOps == 3
\* The same for a run of the ownership calls alone (Initialize, Merge, moves,
\* destruction).
MaxOwnershipOps == 5
\* Number of calls in a run that prints one frame.
MaxPrintOps == 2
\* Largest cursor position and longest result list of the frame printed.
MaxPos == 2
MaxResults == 2
\* Number of AllocateValue calls one heap serves.
MaxAllocs == 2

\* The RuntimeScope objects of a run.
Scopes == {1, 2, 3}
Heaps == {1, 2}
\* Binding identities; "k" carries a compile-time constant value.
Nodes == {"a", "b", "k"}
AllocationIds == 1..MaxAllocs
ElementPaths == {<<>>, <<1>>}
SourceLocations == {"L1", "L2"}
IntValues == {1}

\* ValueNodeView::constant_value().has_value()
HasConstantValue(value_node) == value_node = "k"

\* Address: allocation id plus element path.
Addresses == [allocation_ : AllocationIds, element_path_ : ElementPaths]
NoAddress == [allocation_ |-> 0, element_path_ |-> <<>>]
Address(allocation) == [allocation_ |-> allocation, element_path_ |-> <<>>]

\* Values: a LocationValue wraps an address, every other kind is direct.
LocationValue(address) == [kind |-> "LocationValue", int |-> 0, address |-> address]
IntValue(i) == [kind |-> "IntValue", int |-> i, address |-> NoAddress]
Values == {LocationValue(a) : a \in Addresses} \cup {IntValue(i) : i \in IntValues}
NoValue == [kind |-> "None", int |-> 0, address |-> NoAddress]

VARIABLES
  lifecycle,\* [Scopes -> "unborn" | "live" | "destroyed"]
  scopes,   \* [Scopes -> the fields of one RuntimeScope]
  heap,     \* [Heaps -> allocation counter, release counts, bound values]
  call,     \* the last call: operation, receiver and arguments
  ret,      \* what the last call returned
  budget,   \* number of calls the run may still make
  fatal,    \* "" or the message of the CARBON_CHECK that ended the process
  action,   \* the fields of one Action (the frame that is printed)
  out       \* the text written to the output stream so far

vars == <<lifecycle, scopes, heap, call, ret, budget, fatal, action, out>>

\* ------------------------------------------------------------- containers
\* locals_ is an insertion-ordered map: a sequence of entries, unique keys.
Find(locals, key) ==
  IF \E i \in 1..Len(locals) : locals[i].first = key
  THEN CHOOSE i \in 1..Len(locals) : locals[i].first = key
  ELSE 0

Keys(locals) == {locals[i].first : i \in 1..Len(locals)}

\* Mutant of LocalsInsert: assigns over an entry that is present.
LocalsInsertOrAssign(locals, key, value) ==
  IF Find(locals, key) # 0
  THEN [map |-> [locals EXCEPT ![Find(locals, key)].second = value], second |-> TRUE]
  ELSE [map |-> Append(locals, [first |-> key, second |-> value]), second |-> TRUE]

\* locals_.insert({key, value}): no effect when the key is present.
LocalsInsert(locals, key, value) ==
  IF Find(locals, key) # 0
  THEN [map |-> locals, second |-> FALSE]
  ELSE [map |-> Append(locals, [first |-> key, second |-> value]), second |-> TRUE]

\* bound_values_.insert(node)
SetInsert(set, element) ==
  [set |-> set \cup {element}, second |-> element \notin set]

\* std::exchange(obj, new_value): obj takes new_value, the old value is returned.
Exchange(obj, new_value) == [returned |-> obj, obj |-> new_value]

\* ------------------------------------------------------------------- heap
\* The heap is consumed through its interface only: AllocateValue hands out
\* fresh allocation ids, BindValueToReference registers the address a node is
\* pinned to (NoAddress: none), is_bound_value_alive answers whether the node
\* is still registered at that address, Deallocate releases.
\* creator is history: the scope whose Initialize made the allocation (0: none).
NewHeap ==
  [next |-> 0,
   released |-> [a \in AllocationIds |-> 0],
   creator |-> [a \in AllocationIds |-> 0],
   bound_values |-> [n \in Nodes |-> NoAddress]]

AllocateValue(hp) == [heap |-> [hp EXCEPT !.next = @ + 1], id |-> hp.next + 1]

BindValueToReference(hp, value_node, address) ==
  [hp EXCEPT !.bound_values[value_node] = address]

is_bound_value_alive(hp, value_node, address) ==
  hp.bound_values[value_node] = address

Deallocate(hp, allocation) == [hp EXCEPT !.released[allocation] = @ + 1]

\* ----------------------------------------------------------- RuntimeScope
\* explicit RuntimeScope(heap): empty, bound to one heap.
RuntimeScope(h) ==
  [locals_ |-> <<>>, bound_values_ |-> {}, allocations_ |-> <<>>, heap_ |-> h]

\* Outcome of a call: the scope and its heap afterwards, the returned value,
\* and the message of the CARBON_CHECK that failed ("" when none did).
Outcome(sc, hp, r, msg) == [scope |-> sc, heap |-> hp, ret |-> r, fatal |-> msg]

Void == [kind |-> "void", value |-> NoValue, loc |-> ""]
Absent == [kind |-> "nullopt", value |-> NoValue, loc |-> ""]
Returned(value) == [kind |-> "value", value |-> value, loc |-> ""]
ProgramError(source_loc) == [kind |-> "ProgramError", value |-> NoValue, loc |-> source_loc]

MsgConstant == "CHECK failure: !value_node.constant_value().has_value()"
MsgLocationKind == "CHECK failure: value->kind() != Value::Kind::LocationValue"
MsgDuplicate == "Duplicate definition"
MsgDuplicatePin == "Duplicate pinned node"
MsgDuplicateBound == "Duplicate bound value."
MsgSubElement == "Cannot extend lifetime of a specific sub-element"
MsgHeap == "CHECK failure: heap_ == other.heap_"
MsgEmpty == "CHECK failure: !scopes.empty()"
MsgNotLocation == "CHECK failure: kind() == Value::Kind::LocationValue"

\* Mutant of MoveConstruct: bound_values_ is copied, the source keeps its pins.
MoveConstructPinsCopied(other) ==
  LET ex == Exchange(other.allocations_, <<>>) IN
  [scope |-> [locals_ |-> other.locals_,
              bound_values_ |-> other.bound_values_,
              allocations_ |-> ex.returned,
              heap_ |-> other.heap_],
   other |-> [other EXCEPT !.locals_ = <<>>, !.allocations_ = ex.obj]]

\* RuntimeScope(RuntimeScope&& other): the new scope and what is left of other.
MoveConstruct(other) ==
  LET ex == Exchange(other.allocations_, <<>>) IN
  [scope |-> [locals_ |-> other.locals_,
              bound_values_ |-> other.bound_values_,
              allocations_ |-> ex.returned,
              heap_ |-> other.heap_],
   other |-> [other EXCEPT !.locals_ = <<>>, !.bound_values_ = {},
                           !.allocations_ = ex.obj]]

\* operator=(RuntimeScope&& rhs): *this afterwards and what is left of rhs.
MoveAssign(sc, rhs) ==
  LET ex == Exchange(rhs.allocations_, <<>>) IN
  [scope |-> [sc EXCEPT !.locals_ = rhs.locals_,
                        !.bound_values_ = rhs.bound_values_,
                        !.allocations_ = ex.returned,
                        !.heap_ = rhs.heap_],
   other |-> [rhs EXCEPT !.locals_ = <<>>, !.bound_values_ = {},
                         !.allocations_ = ex.obj]]

Bind(sc, hp, value_node, address) ==
  IF HasConstantValue(value_node) THEN Outcome(sc, hp, Void, MsgConstant)
  ELSE LET ins == LocalsInsert(sc.locals_, value_node, LocationValue(address)) IN
       Outcome([sc EXCEPT !.locals_ = ins.map], hp, Void,
               IF ins.second THEN "" ELSE MsgDuplicate)

BindAndPin(sc, hp, value_node, address) ==
  LET b == Bind(sc, hp, value_node, address) IN
  IF b.fatal # "" THEN b
  ELSE LET ins == SetInsert(b.scope.bound_values_, value_node) IN
       IF ~ins.second
       THEN Outcome([b.scope EXCEPT !.bound_values_ = ins.set], hp, Void, MsgDuplicatePin)
       ELSE Outcome([b.scope EXCEPT !.bound_values_ = ins.set],
                    BindValueToReference(hp, value_node, address), Void, "")

\* Mutant of BindLifetimeToScope: the element path is not checked.
BindLifetimeToScopeUnchecked(sc, hp, address) ==
  Outcome([sc EXCEPT !.allocations_ = Append(@, address.allocation_)], hp, Void, "")

BindLifetimeToScope(sc, hp, address) ==
  IF address.element_path_ # <<>> THEN Outcome(sc, hp, Void, MsgSubElement)
  ELSE Outcome([sc EXCEPT !.allocations_ = Append(@, address.allocation_)], hp, Void, "")

\* Mutant of BindValue: neither the constant value nor the kind is checked.
BindValueUnchecked(sc, hp, value_node, value) ==
  LET ins == LocalsInsert(sc.locals_, value_node, value) IN
  Outcome([sc EXCEPT !.locals_ = ins.map], hp, Void,
          IF ins.second THEN "" ELSE MsgDuplicate)

BindValue(sc, hp, value_node, value) ==
  IF HasConstantValue(value_node) THEN Outcome(sc, hp, Void, MsgConstant)
  ELSE IF value.kind = "LocationValue" THEN Outcome(sc, hp, Void, MsgLocationKind)
  ELSE LET ins == LocalsInsert(sc.locals_, value_node, value) IN
       Outcome([sc EXCEPT !.locals_ = ins.map], hp, Void,
               IF ins.second THEN "" ELSE MsgDuplicate)

Initialize(sc, hp, value_node, value) ==
  IF HasConstantValue(value_node) THEN Outcome(sc, hp, Void, MsgConstant)
  ELSE IF value.kind = "LocationValue" THEN Outcome(sc, hp, Void, MsgLocationKind)
  ELSE LET al == AllocateValue(hp)
           allocs == Append(sc.allocations_, al.id)
           location == LocationValue(Address(allocs[Len(allocs)]))
           ins == LocalsInsert(sc.locals_, value_node, location)
       IN Outcome([sc EXCEPT !.allocations_ = allocs, !.locals_ = ins.map], al.heap,
                  IF ins.second THEN Returned(location) ELSE Void,
                  IF ins.second THEN "" ELSE MsgDuplicate)

\* Mutant of MergeLocals: an entry whose key is present is skipped silently.
RECURSIVE MergeLocalsSkipping(_, _)
MergeLocalsSkipping(locals, other_locals) ==
  IF other_locals = <<>> THEN [map |-> locals, second |-> TRUE]
  ELSE MergeLocalsSkipping(
         LocalsInsert(locals, Head(other_locals).first, Head(other_locals).second).map,
         Tail(other_locals))

\* The first loop of Merge: insert other's entries in order, stop at the first
\* failed CARBON_CHECK(success).
RECURSIVE MergeLocals(_, _)
MergeLocals(locals, other_locals) ==
  IF other_locals = <<>> THEN [map |-> locals, second |-> TRUE]
  ELSE LET element == Head(other_locals)
           ins == LocalsInsert(locals, element.first, element.second)
       IN IF ins.second THEN MergeLocals(ins.map, Tail(other_locals)) ELSE ins

\* The second loop of Merge: every insert into bound_values_ must succeed.
MergeBoundValues(bound_values, other_bound_values) ==
  [set |-> bound_values \cup other_bound_values,
   second |-> bound_values \cap other_bound_values = {}]

\* Mutant of ClearAllocations: the parameter keeps its allocations.
ClearAllocationsForgotten(other) == other

\* other.allocations_.clear()
ClearAllocations(other) == [other EXCEPT !.allocations_ = <<>>]

\* Mutant of Merge: the heaps of the two scopes are not compared.
MergeAnyHeap(sc, other) ==
  LET ml == MergeLocals(sc.locals_, other.locals_) IN
  IF ~ml.second
  THEN [scope |-> [sc EXCEPT !.locals_ = ml.map], other |-> other, fatal |-> MsgDuplicate]
  ELSE LET mb == MergeBoundValues(sc.bound_values_, other.bound_values_) IN
  IF ~mb.second
  THEN [scope |-> [sc EXCEPT !.locals_ = ml.map, !.bound_values_ = mb.set],
        other |-> other, fatal |-> MsgDuplicateBound]
  ELSE [scope |-> [sc EXCEPT !.locals_ = ml.map, !.bound_values_ = mb.set,
                             !.allocations_ = @ \o other.allocations_],
        other |-> ClearAllocations(other),
        fatal |-> ""]

\* Merge(RuntimeScope other): *this and the by-value parameter afterwards.
Merge(sc, other) ==
  IF sc.heap_ # other.heap_ THEN [scope |-> sc, other |-> other, fatal |-> MsgHeap]
  ELSE LET ml == MergeLocals(sc.locals_, other.locals_) IN
  IF ~ml.second
  THEN [scope |-> [sc EXCEPT !.locals_ = ml.map], other |-> other, fatal |-> MsgDuplicate]
  ELSE LET mb == MergeBoundValues(sc.bound_values_, other.bound_values_) IN
  IF ~mb.second
  THEN [scope |-> [sc EXCEPT !.locals_ = ml.map, !.bound_values_ = mb.set],
        other |-> other, fatal |-> MsgDuplicateBound]
  ELSE [scope |-> [sc EXCEPT !.locals_ = ml.map, !.bound_values_ = mb.set,
                             !.allocations_ = @ \o other.allocations_],
        other |-> ClearAllocations(other),
        fatal |-> ""]

\* Mutant of Get: a binding the scope does not hold is looked up in the heap's
\* registry of bound values.
GetConsultingHeap(sc, hp, value_node, source_loc) ==
  LET it == Find(sc.locals_, value_node) IN
  IF it = 0
  THEN IF hp.bound_values[value_node] # NoAddress THEN ProgramError(source_loc) ELSE Absent
  ELSE IF value_node \in sc.bound_values_
       THEN IF sc.locals_[it].second.kind # "LocationValue"
            THEN [kind |-> "fatal", value |-> NoValue, loc |-> ""]
            ELSE IF ~is_bound_value_alive(hp, value_node, sc.locals_[it].second.address)
                 THEN ProgramError(source_loc)
                 ELSE Returned(sc.locals_[it].second)
       ELSE Returned(sc.locals_[it].second)

\* Mutant of Get: a pinned binding is returned without the liveness check.
GetUnchecked(sc, hp, value_node, source_loc) ==
  LET it == Find(sc.locals_, value_node) IN
  IF it = 0 THEN Absent ELSE Returned(sc.locals_[it].second)

\* Get(value_node, source_loc); kind "fatal" is the failed CARBON_CHECK.
Get(sc, hp, value_node, source_loc) ==
  LET it == Find(sc.locals_, value_node) IN
  IF it = 0 THEN Absent
  ELSE IF value_node \in sc.bound_values_
       THEN IF sc.locals_[it].second.kind # "LocationValue"
            THEN [kind |-> "fatal", value |-> NoValue, loc |-> ""]
            ELSE IF ~is_bound_value_alive(hp, value_node, sc.locals_[it].second.address)
                 THEN ProgramError(source_loc)
                 ELSE Returned(sc.locals_[it].second)
       ELSE Returned(sc.locals_[it].second)

\* Mutant of CaptureLocals: a later duplicate replaces the earlier entry.
RECURSIVE CaptureLocalsLastWins(_, _)
CaptureLocalsLastWins(locals, scope_locals) ==
  IF scope_locals = <<>> THEN locals
  ELSE CaptureLocalsLastWins(
         LocalsInsertOrAssign(locals, Head(scope_locals).first,
                              Head(scope_locals).second).map,
         Tail(scope_locals))

\* The inner loop of Capture: insert every entry, disregarding duplicates.
RECURSIVE CaptureLocals(_, _)
CaptureLocals(locals, scope_locals) ==
  IF scope_locals = <<>> THEN locals
  ELSE CaptureLocals(
         LocalsInsert(locals, Head(scope_locals).first, Head(scope_locals).second).map,
         Tail(scope_locals))

\* Mutant of CaptureLoop: the result also takes the allocations of each scope.
RECURSIVE CaptureLoopOwning(_, _)
CaptureLoopOwning(result, scps) ==
  IF scps = <<>> THEN [scope |-> result, fatal |-> ""]
  ELSE IF Head(scps).heap_ # result.heap_ THEN [scope |-> result, fatal |-> MsgHeap]
  ELSE CaptureLoopOwning(
         [result EXCEPT !.locals_ = CaptureLocals(@, Head(scps).locals_),
                        !.allocations_ = @ \o Head(scps).allocations_],
         Tail(scps))

\* The outer loop of Capture over the scopes of the vector, in order.
RECURSIVE CaptureLoop(_, _)
CaptureLoop(result, scps) ==
  IF scps = <<>> THEN [scope |-> result, fatal |-> ""]
  ELSE IF Head(scps).heap_ # result.heap_ THEN [scope |-> result, fatal |-> MsgHeap]
  ELSE CaptureLoop([result EXCEPT !.locals_ = CaptureLocals(@, Head(scps).locals_)],
                   Tail(scps))

\* Capture(scopes): scps is the vector of the pointed-to scopes.
Capture(scps) ==
  IF scps = <<>> THEN [scope |-> RuntimeScope(1), fatal |-> MsgEmpty]
  ELSE CaptureLoop(RuntimeScope(Head(scps).heap_), scps)

\* Destruction of a scope: every allocation it still owns goes back to the heap.
RECURSIVE Destroy(_, _)
Destroy(allocations, hp) ==
  IF allocations = <<>> THEN hp
  ELSE Destroy(Tail(allocations), Deallocate(hp, Head(allocations)))

\* ----------------------------------------------------------------- Print
\* What operator<< writes for a value node and for a value (their Print
\* functions are outside this file): the node's name; the digits of a direct
\* value, the allocation and element path of a location.
PrintNode(value_node) == value_node

PrintValue(value) ==
  IF value.kind = "LocationValue"
  THEN "ptr<Allocation(" \o ToString(value.address.allocation_) \o ")"
         \o (IF value.address.element_path_ = <<>> THEN "" ELSE ".1") \o ">"
  ELSE ToString(value.int)

\* llvm::ListSeparator: nothing before the first element, ", " before the others.
ListSeparator(first) == IF first THEN "" ELSE ", "

\* Mutant of PrintLocals: the entries are written last to first.
RECURSIVE PrintLocalsReversed(_, _)
PrintLocalsReversed(locals, i) ==
  IF i > Len(locals) THEN ""
  ELSE ListSeparator(i = 1) \o PrintNode(locals[Len(locals) + 1 - i].first) \o ": "
         \o PrintValue(locals[Len(locals) + 1 - i].second)
         \o PrintLocalsReversed(locals, i + 1)

\* The loop of RuntimeScope::Print over locals_ from entry i on.
RECURSIVE PrintLocals(_, _)
PrintLocals(locals, i) ==
  IF i > Len(locals) THEN ""
  ELSE ListSeparator(i = 1) \o PrintNode(locals[i].first) \o ": "
         \o PrintValue(locals[i].second) \o PrintLocals(locals, i + 1)

\* RuntimeScope::Print: the text it writes.
ScopePrint(sc) == "{" \o PrintLocals(sc.locals_, 1) \o "}"

\* An Action: its kind, the text its expression, statement, declaration,
\* witness or type prints as, the cursor, the results, and the slot of the
\* scope it owns (0: none).
ActionKinds ==
  {"LocationAction", "ValueExpressionAction", "ExpressionAction", "WitnessAction",
   "StatementAction", "DeclarationAction", "TypeInstantiationAction", "ScopeAction",
   "RecursiveAction", "CleanUpAction", "DestroyAction"}

NoAction == [kind |-> "", payload |-> "", pos_ |-> 0, results_ |-> <<>>, scope_ |-> 0]

\* The switch of Action::Print.
ActionPrefix(act) ==
  CASE act.kind \in {"LocationAction", "ValueExpressionAction", "ExpressionAction",
                     "WitnessAction", "StatementAction", "DeclarationAction",
                     "TypeInstantiationAction"} -> act.payload \o " "
    [] act.kind = "ScopeAction" -> ""
    [] act.kind = "RecursiveAction" -> "recursive"
    [] act.kind = "CleanUpAction" -> "clean up"
    [] act.kind = "DestroyAction" -> "destroy"

\* The loop of Action::Print over results_ from element i on.
RECURSIVE PrintResults(_, _)
PrintResults(results, i) ==
  IF i > Len(results) THEN ""
  ELSE ListSeparator(i = 1) \o PrintValue(results[i]) \o PrintResults(results, i + 1)

\* Mutant of ActionPrint: the brackets are written for an empty result list too.
ActionPrintAlwaysBrackets(act, scps) ==
  ActionPrefix(act) \o "." \o ToString(act.pos_) \o "."
    \o " [[" \o PrintResults(act.results_, 1) \o "]]"
    \o (IF act.scope_ # 0 THEN " " \o ScopePrint(scps[act.scope_]) ELSE "")

\* Action::Print: the text it writes; scps holds the scope objects.
ActionPrint(act, scps) ==
  ActionPrefix(act) \o "." \o ToString(act.pos_) \o "."
    \o (IF act.results_ # <<>> THEN " [[" \o PrintResults(act.results_, 1) \o "]]" ELSE "")
    \o (IF act.scope_ # 0 THEN " " \o ScopePrint(scps[act.scope_]) ELSE "")

\* ---------------------------------------------------------------- actions
\* The last call: operation op on scope self (0: none) with its arguments.
NoCall ==
  [op |-> "", self |-> 0, other |-> <<>>, node |-> "", address |-> NoAddress,
   value |-> NoValue, loc |-> ""]

\* The process is running and makes one more call.
Called(op, self, other, node, address, value, loc) ==
  /\ fatal = "" /\ budget > 0 /\ budget' = budget - 1
  /\ call' = [op |-> op, self |-> self, other |-> other, node |-> node,
              address |-> address, value |-> value, loc |-> loc]

\* A call of a RuntimeScope member that is not Print: nothing is written, and
\* the frame is not touched.
Call(op, self, other, node, address, value, loc) ==
  /\ Called(op, self, other, node, address, value, loc)
  /\ UNCHANGED <<action, out>>

\* The interpreter has allocated one value of its own on each heap, and two
\* scopes are constructed on the heap called 1; a third scope object comes from
\* a later construction (on either heap), move construction or Capture.
ConstructedOn(h) ==
  /\ lifecycle = [s \in Scopes |-> IF s <= 2 THEN "live" ELSE "unborn"]
  /\ scopes = [s \in Scopes |-> IF s = 2 THEN RuntimeScope(h) ELSE RuntimeScope(1)]
  /\ heap = [hp \in Heaps |-> AllocateValue(NewHeap).heap]
  /\ call = NoCall
  /\ ret = Void
  /\ fatal = ""
  /\ out = ""

Constructed == ConstructedOn(1)

Init == Constructed /\ budget = MaxOps /\ action = NoAction

Live(s) == lifecycle[s] = "live"
HeapOf(s) == heap[scopes[s].heap_]

\* Addresses into the allocations a heap has made so far; a binding is given
\* the address of a whole allocation.
HeapAddresses(hp) == {a \in Addresses : a.allocation_ <= hp.next}
WholeAddresses(hp) == {a \in HeapAddresses(hp) : a.element_path_ = <<>>}

\* A new RuntimeScope object takes the lowest slot never used (0: none left).
NewSlot ==
  IF \E s \in Scopes : lifecycle[s] = "unborn"
  THEN CHOOSE s \in Scopes :
         lifecycle[s] = "unborn" /\ \A t \in Scopes : lifecycle[t] = "unborn" => s <= t
  ELSE 0

\* A failed CARBON_CHECK ends the process: its objects are gone, the message
\* is what remains.
Abort(msg) ==
  /\ fatal' = msg
  /\ lifecycle' = [s \in Scopes |-> "unborn"]
  /\ scopes' = [s \in Scopes |-> RuntimeScope(1)]
  /\ heap' = [h \in Heaps |-> NewHeap]
  /\ ret' = Void

\* The scope s and its heap take the outcome of a call on s.
Finish(s, outcome) ==
  IF outcome.fatal # "" THEN Abort(outcome.fatal)
  ELSE /\ scopes' = [scopes EXCEPT ![s] = outcome.scope]
       /\ heap' = [heap EXCEPT ![scopes[s].heap_] = outcome.heap]
       /\ ret' = outcome.ret
       /\ fatal' = ""
       /\ UNCHANGED lifecycle

Construct(h) ==
  /\ NewSlot # 0
  /\ Call("RuntimeScope", NewSlot, <<>>, "", NoAddress, NoValue, "")
  /\ lifecycle' = [lifecycle EXCEPT ![NewSlot] = "live"]
  /\ scopes' = [scopes EXCEPT ![NewSlot] = RuntimeScope(h)]
  /\ ret' = Void
  /\ UNCHANGED <<heap, fatal>>

DoMoveConstruct(s) ==
  /\ Live(s) /\ NewSlot # 0
  /\ Call("MoveConstruct", NewSlot, <<s>>, "", NoAddress, NoValue, "")
  /\ LET mv == MoveConstruct(scopes[s]) IN
     scopes' = [scopes EXCEPT ![NewSlot] = mv.scope, ![s] = mv.other]
  /\ lifecycle' = [lifecycle EXCEPT ![NewSlot] = "live"]
  /\ ret' = Void
  /\ UNCHANGED <<heap, fatal>>

DoMoveAssign(d, s) ==
  /\ Live(d) /\ Live(s) /\ d # s
  /\ Call("MoveAssign", d, <<s>>, "", NoAddress, NoValue, "")
  /\ LET mv == MoveAssign(scopes[d], scopes[s]) IN
     scopes' = [scopes EXCEPT ![d] = mv.scope, ![s] = mv.other]
  /\ ret' = Void
  /\ UNCHANGED <<lifecycle, heap, fatal>>

DoBind(s, value_node, address) ==
  /\ Live(s) /\ address \in WholeAddresses(HeapOf(s))
  /\ Call("Bind", s, <<>>, value_node, address, NoValue, "")
  /\ Finish(s, Bind(scopes[s], HeapOf(s), value_node, address))

DoBindAndPin(s, value_node, address) ==
  /\ Live(s) /\ address \in WholeAddresses(HeapOf(s))
  /\ Call("BindAndPin", s, <<>>, value_node, address, NoValue, "")
  /\ Finish(s, BindAndPin(scopes[s], HeapOf(s), value_node, address))

DoBindLifetimeToScope(s, address) ==
  /\ Live(s) /\ address \in HeapAddresses(HeapOf(s))
  /\ Call("BindLifetimeToScope", s, <<>>, "", address, NoValue, "")
  /\ Finish(s, BindLifetimeToScope(scopes[s], HeapOf(s), address))

DoBindValue(s, value_node, value) ==
  /\ Live(s)
  /\ Call("BindValue", s, <<>>, value_node, NoAddress, value, "")
  /\ Finish(s, BindValue(scopes[s], HeapOf(s), value_node, value))

\* creator records which scope's Initialize made the new allocation.
DoInitialize(s, value_node, value) ==
  /\ Live(s) /\ HeapOf(s).next < MaxAllocs
  /\ Call("Initialize", s, <<>>, value_node, NoAddress, value, "")
  /\ LET outcome == Initialize(scopes[s], HeapOf(s), value_node, value) IN
     Finish(s, [outcome EXCEPT !.heap.creator =
                  IF outcome.heap.next > HeapOf(s).next
                  THEN [@ EXCEPT ![outcome.heap.next] = s] ELSE @])

\* s.Merge(std::move(t)): the parameter is move-constructed from t, merged into
\* s, and destroyed when the call returns.
DoMerge(s, t) ==
  /\ Live(s) /\ Live(t) /\ s # t
  /\ Call("Merge", s, <<t>>, "", NoAddress, NoValue, "")
  /\ LET mv == MoveConstruct(scopes[t])
         m == Merge(scopes[s], mv.scope)
     IN IF m.fatal # "" THEN Abort(m.fatal)
        ELSE /\ scopes' = [scopes EXCEPT ![s] = m.scope, ![t] = mv.other]
             /\ heap' = [heap EXCEPT ![m.other.heap_] = Destroy(m.other.allocations_, @)]
             /\ ret' = Void
             /\ UNCHANGED <<lifecycle, fatal>>

DoGet(s, value_node, source_loc) ==
  /\ Live(s)
  /\ Call("Get", s, <<>>, value_node, NoAddress, NoValue, source_loc)
  /\ LET r == Get(scopes[s], HeapOf(s), value_node, source_loc) IN
     IF r.kind = "fatal" THEN Abort(MsgNotLocation)
     ELSE ret' = r /\ UNCHANGED <<lifecycle, scopes, heap, fatal>>

\* Capture(scps), its result constructed into a new scope object.
DoCapture(scps) ==
  /\ NewSlot # 0
  /\ \A i \in 1..Len(scps) : Live(scps[i])
  /\ Call("Capture", NewSlot, scps, "", NoAddress, NoValue, "")
  /\ LET c == Capture([i \in 1..Len(scps) |-> scopes[scps[i]]]) IN
     IF c.fatal # "" THEN Abort(c.fatal)
     ELSE /\ scopes' = [scopes EXCEPT ![NewSlot] = c.scope]
          /\ lifecycle' = [lifecycle EXCEPT ![NewSlot] = "live"]
          /\ ret' = Void
          /\ UNCHANGED <<heap, fatal>>

\* ~RuntimeScope()
DoDestroy(s) ==
  /\ Live(s)
  /\ Call("~RuntimeScope", s, <<>>, "", NoAddress, NoValue, "")
  /\ heap' = [heap EXCEPT ![scopes[s].heap_] = Destroy(scopes[s].allocations_, @)]
  /\ lifecycle' = [lifecycle EXCEPT ![s] = "destroyed"]
  /\ scopes' = [scopes EXCEPT ![s] = RuntimeScope(1)]
  /\ ret' = Void
  /\ UNCHANGED fatal

\* The referent of a pinned binding is reassigned or deallocated elsewhere.
HeapInvalidate(h, value_node) ==
  /\ heap[h].bound_values[value_node] # NoAddress
  /\ Call("Heap", 0, <<>>, value_node, NoAddress, NoValue, "")
  /\ heap' = [heap EXCEPT ![h].bound_values[value_node] = NoAddress]
  /\ ret' = Void
  /\ UNCHANGED <<lifecycle, scopes, fatal>>

\* Action::Print(out) of the frame.
DoActionPrint ==
  /\ action # NoAction
  /\ Called("Action::Print", 0, <<>>, "", NoAddress, NoValue, "")
  /\ out' = out \o ActionPrint(action, scopes)
  /\ ret' = Void
  /\ UNCHANGED <<lifecycle, scopes, heap, fatal, action>>

\* RuntimeScope::Print(out) of scope s.
DoPrint(s) ==
  /\ Live(s)
  /\ Called("Print", s, <<>>, "", NoAddress, NoValue, "")
  /\ out' = out \o ScopePrint(scopes[s])
  /\ ret' = Void
  /\ UNCHANGED <<lifecycle, scopes, heap, fatal, action>>

\* Inputs: vectors of up to two scopes; one direct value and one location.
ScopeVectors ==
  {<<>>} \cup {<<s>> : s \in Scopes}
    \cup {<<p[1], p[2]>> : p \in {q \in Scopes \X Scopes : q[1] # q[2]}}
ValueInputs == {IntValue(i) : i \in IntValues} \cup {LocationValue(Address(1))}

Next ==
  \/ \E h \in Heaps : Construct(h)
  \/ \E s \in Scopes : DoMoveConstruct(s)
  \/ \E d \in Scopes, s \in Scopes : DoMoveAssign(d, s)
  \/ \E s \in Scopes, n \in Nodes, a \in Addresses : DoBind(s, n, a)
  \/ \E s \in Scopes, n \in Nodes, a \in Addresses : DoBindAndPin(s, n, a)
  \/ \E s \in Scopes, a \in Addresses : DoBindLifetimeToScope(s, a)
  \/ \E s \in Scopes, n \in Nodes, v \in ValueInputs : DoBindValue(s, n, v)
  \/ \E s \in Scopes, n \in Nodes, v \in ValueInputs : DoInitialize(s, n, v)
  \/ \E s \in Scopes, t \in Scopes : DoMerge(s, t)
  \/ \E s \in Scopes, n \in Nodes, l \in SourceLocations : DoGet(s, n, l)
  \/ \E scps \in ScopeVectors : DoCapture(scps)
  \/ \E s \in Scopes : DoDestroy(s)
  \/ \E h \in Heaps, n \in Nodes : HeapInvalidate(h, n)

Spec == Init /\ [][Next]_vars

\* ----------------------------------------------------------------- claims
\* The receiver of the last call after it, before it, and the heaps they use.
SelfAfter == scopes'[call'.self]
SelfBefore == scopes[call'.self]
HeapAfter == heap'[SelfAfter.heap_]
HeapBefore == heap[SelfBefore.heap_]

\* The operations on a scope that add bindings or ownership to it.
BindingOps == {"Bind", "BindAndPin", "BindValue", "Initialize", "Merge", "BindLifetimeToScope"}

\* The step is a call of op that returned (no CARBON_CHECK failed).
Returns(op) == call'.op = op /\ fatal' = ""

\* C1: a non-constant binding bound by Bind, BindValue or Initialize is read
\* back by Get as the location of the given address, the given value, or the
\* location Initialize returned; and a binding that is not pinned keeps what
\* Get returns across every later call on the scope that binds or merges.
C1_Step ==
  /\ Returns("Bind") =>
       \A l \in SourceLocations :
         Get(SelfAfter, HeapAfter, call'.node, l) = Returned(LocationValue(call'.address))
  /\ Returns("BindValue") =>
       \A l \in SourceLocations :
         Get(SelfAfter, HeapAfter, call'.node, l) = Returned(call'.value)
  /\ Returns("Initialize") =>
       /\ ret'.kind = "value" /\ ret'.value.kind = "LocationValue"
       /\ \A l \in SourceLocations : Get(SelfAfter, HeapAfter, call'.node, l) = ret'
  /\ (call'.op \in BindingOps /\ fatal' = "") =>
       \A n \in Keys(SelfBefore.locals_) \ SelfBefore.bound_values_ :
         \A l \in SourceLocations :
           /\ Get(SelfBefore, HeapBefore, n, l).kind = "value"
           /\ Get(SelfAfter, HeapAfter, n, l) = Get(SelfBefore, HeapBefore, n, l)

C1_BindThenGet == [][C1_Step]_vars

\* A Get that reads back the first of two bindings of a scope, not pinned.
C1_Witness ==
  /\ fatal = "" /\ call.op = "Get" /\ ret.kind = "value"
  /\ Len(scopes[call.self].locals_) = 2
  /\ scopes[call.self].locals_[1].first = call.node
  /\ call.node \notin scopes[call.self].bound_values_

\* The heap hp with value_node registered at address x (NoAddress: at none).
Registered(hp, value_node, x) == [hp EXCEPT !.bound_values[value_node] = x]

\* C2: after BindAndPin(b, addr), Get(b, loc) returns the location of addr when
\* the heap reports b alive at addr and the stale-reference error carrying loc
\* when it does not, whatever the heap has registered for b; the pin and the
\* bound location stay through later calls on the scope, and every Get of a
\* pinned binding answers by the liveness of the bound address.
C2_Step ==
  /\ Returns("BindAndPin") =>
       \A x \in Addresses \cup {NoAddress}, l \in SourceLocations :
         Get(SelfAfter, Registered(HeapAfter, call'.node, x), call'.node, l) =
           IF is_bound_value_alive(Registered(HeapAfter, call'.node, x),
                                   call'.node, call'.address)
           THEN Returned(LocationValue(call'.address))
           ELSE ProgramError(l)
  /\ (call'.op \in BindingOps /\ fatal' = "") =>
       \A n \in SelfBefore.bound_values_ :
         /\ n \in SelfAfter.bound_values_
         /\ Find(SelfAfter.locals_, n) # 0
         /\ Find(SelfBefore.locals_, n) # 0
         /\ SelfAfter.locals_[Find(SelfAfter.locals_, n)].second =
              SelfBefore.locals_[Find(SelfBefore.locals_, n)].second
  /\ (Returns("Get") /\ call'.node \in SelfBefore.bound_values_) =>
       LET bound == SelfBefore.locals_[Find(SelfBefore.locals_, call'.node)].second IN
       ret' = IF is_bound_value_alive(HeapBefore, call'.node, bound.address)
              THEN Returned(bound)
              ELSE ProgramError(call'.loc)

C2_PinnedGet == [][C2_Step]_vars

\* A Get of a pinned binding that returned the stale-reference error.
C2_Witness ==
  /\ fatal = "" /\ call.op = "Get"
  /\ call.node \in scopes[call.self].bound_values_
  /\ ret = ProgramError(call.loc)

\* The argument scope of the last call (Merge, moves) before and after it.
OtherBefore == scopes[call'.other[1]]
OtherAfter == scopes'[call'.other[1]]

\* The value a key is bound to in locals.
ValueOf(locals, key) == locals[Find(locals, key)].second

\* The scope that held key before a Merge of self and other.
HolderBefore(key) ==
  IF key \in Keys(SelfBefore.locals_) THEN SelfBefore ELSE OtherBefore

\* C3 (as stated): after s1.Merge(s2) Get on s1 succeeds for every key of s1 or
\* s2 with the key's original value, s1's pinned set is the union of the two,
\* s1 owns the allocations of both, and s2 owns none and releases none.
C3_StepOriginal ==
  Returns("Merge") =>
    /\ \A n \in Keys(SelfBefore.locals_) \cup Keys(OtherBefore.locals_) :
         \A l \in SourceLocations :
           Get(SelfAfter, HeapAfter, n, l) = Returned(ValueOf(HolderBefore(n).locals_, n))
    /\ SelfAfter.bound_values_ = SelfBefore.bound_values_ \cup OtherBefore.bound_values_
    /\ SelfAfter.allocations_ = SelfBefore.allocations_ \o OtherBefore.allocations_
    /\ OtherAfter.allocations_ = <<>>
    /\ heap' = heap

C3_MergeOriginal == [][C3_StepOriginal]_vars

\* C3 (amended): after s1.Merge(s2) every key of s1 or s2 is bound in s1 to its
\* original value and Get on s1 returns what Get on the key's original scope
\* returned before the merge (the value, or the stale-reference error for a
\* pinned key the heap reports not alive); pinned sets and allocations as stated.
C3_Step ==
  Returns("Merge") =>
    /\ SelfBefore.heap_ = OtherBefore.heap_
    /\ Keys(SelfBefore.locals_) \cap Keys(OtherBefore.locals_) = {}
    /\ Keys(SelfAfter.locals_) = Keys(SelfBefore.locals_) \cup Keys(OtherBefore.locals_)
    /\ \A n \in Keys(SelfBefore.locals_) \cup Keys(OtherBefore.locals_) :
         /\ ValueOf(SelfAfter.locals_, n) = ValueOf(HolderBefore(n).locals_, n)
         /\ \A l \in SourceLocations :
              Get(SelfAfter, HeapAfter, n, l) = Get(HolderBefore(n), HeapBefore, n, l)
    /\ SelfAfter.bound_values_ = SelfBefore.bound_values_ \cup OtherBefore.bound_values_
    /\ SelfAfter.allocations_ = SelfBefore.allocations_ \o OtherBefore.allocations_
    /\ OtherAfter.allocations_ = <<>>
    /\ heap' = heap

C3_Merge == [][C3_Step]_vars

\* A Merge that returned: s1 owns two distinct allocations, the second made by
\* an Initialize of s2, whose binding s1 now holds; s2 is left owning none.
C3_Witness ==
  /\ fatal = "" /\ call.op = "Merge"
  /\ Len(scopes[call.self].locals_) >= 1
  /\ Len(scopes[call.self].allocations_) = 2
  /\ scopes[call.self].allocations_[1] # scopes[call.self].allocations_[2]
  /\ heap[scopes[call.self].heap_].creator[scopes[call.self].allocations_[2]] = call.other[1]
  /\ scopes[call.other[1]].allocations_ = <<>>

\* The allocations a scope owns, each with the heap it belongs to.
Owned(sc) == {<<sc.heap_, sc.allocations_[i]>> : i \in 1..Len(sc.allocations_)}

\* C4: a move (construction or assignment) leaves the destination with the
\* source's bindings and pinned set, owning the allocations the destination
\* and the source owned before it; the source is left owning none.
C4_Step ==
  (Returns("MoveConstruct") \/ Returns("MoveAssign")) =>
    /\ SelfAfter.locals_ = OtherBefore.locals_
    /\ SelfAfter.bound_values_ = OtherBefore.bound_values_
    /\ Owned(SelfAfter) = Owned(SelfBefore) \cup Owned(OtherBefore)
    /\ OtherAfter.allocations_ = <<>>

C4_Move == [][C4_Step]_vars

\* C5: no allocation is owned twice, by two scopes or twice by one scope.
C5_Exclusive ==
  fatal = "" =>
    \A s \in Scopes, t \in Scopes :
      \A i \in 1..Len(scopes[s].allocations_), j \in 1..Len(scopes[t].allocations_) :
        (Live(s) /\ Live(t) /\ (s # t \/ i # j) /\ scopes[s].heap_ = scopes[t].heap_)
          => scopes[s].allocations_[i] # scopes[t].allocations_[j]

\* The calls C6 is about: Initialize, Merge, the two moves, and destruction.
NextOwnership ==
  \/ \E s \in Scopes, n \in Nodes, v \in ValueInputs : DoInitialize(s, n, v)
  \/ \E s \in Scopes, t \in Scopes : DoMerge(s, t)
  \/ \E s \in Scopes : DoMoveConstruct(s)
  \/ \E d \in Scopes, s \in Scopes : DoMoveAssign(d, s)
  \/ \E s \in Scopes : DoDestroy(s)

InitOwnership == Constructed /\ budget = MaxOwnershipOps /\ action = NoAction

SpecOwnership == InitOwnership /\ [][NextOwnership]_vars

\* C6: an allocation made by Initialize is never released twice, and has been
\* released exactly once when no scope is left.
C6_ReleasedOnce ==
  fatal = "" =>
    \A h \in Heaps, a \in AllocationIds :
      heap[h].creator[a] # 0 =>
        /\ heap[h].released[a] <= 1
        /\ (\A s \in Scopes : ~Live(s)) => heap[h].released[a] = 1

\* The first scope of the vector scps that binds key (0: none does).
FirstWith(scps, key) ==
  IF \E i \in 1..Len(scps) : key \in Keys(scopes[scps[i]].locals_)
  THEN scps[CHOOSE i \in 1..Len(scps) :
              /\ key \in Keys(scopes[scps[i]].locals_)
              /\ \A j \in 1..(i - 1) : key \notin Keys(scopes[scps[j]].locals_)]
  ELSE 0

\* C7: Get on the scope Capture returns gives each binding the value of the
\* earliest listed scope that binds it, and absent for a binding none binds.
C7_Step ==
  Returns("Capture") =>
    \A n \in Nodes, l \in SourceLocations :
      Get(SelfAfter, HeapAfter, n, l) =
        IF FirstWith(call'.other, n) = 0 THEN Absent
        ELSE Returned(ValueOf(scopes[FirstWith(call'.other, n)].locals_, n))

C7_CaptureFirstWins == [][C7_Step]_vars

\* A Capture of two scopes that bind the same key to different values.
C7_Witness ==
  /\ fatal = "" /\ call.op = "Capture" /\ Len(call.other) = 2
  /\ \E n \in Keys(scopes[call.other[1]].locals_) \cap Keys(scopes[call.other[2]].locals_) :
       /\ ValueOf(scopes[call.other[1]].locals_, n) # ValueOf(scopes[call.other[2]].locals_, n)
       /\ ValueOf(scopes[call.self].locals_, n) = ValueOf(scopes[call.other[1]].locals_, n)

\* C8: Bind, BindAndPin, BindValue and Initialize of a binding that the scope
\* already holds end the process, whichever call bound it first.
C8_Step ==
  (/\ call'.op \in {"Bind", "BindAndPin", "BindValue", "Initialize"}
   /\ call'.node \in Keys(SelfBefore.locals_))
    => fatal' # ""

C8_DuplicateFatal == [][C8_Step]_vars

\* A second binding of a binding identity ended the process.
C8_Witness ==
  /\ fatal = MsgDuplicate
  /\ call.op \in {"Bind", "BindAndPin", "BindValue", "Initialize"}

\* C9: Merge of two scopes that share a key ends the process.
C9_Step ==
  (/\ call'.op = "Merge"
   /\ Keys(SelfBefore.locals_) \cap Keys(OtherBefore.locals_) # {})
    => fatal' # ""

C9_MergeCollisionFatal == [][C9_Step]_vars

\* A Merge ended the process on a duplicate definition.
C9_Witness == fatal = MsgDuplicate /\ call.op = "Merge"

\* C10: BindLifetimeToScope of an address with an element path ends the
\* process; of a whole allocation it appends the allocation to the scope's
\* allocations and leaves bindings and pinned set as they were.
C10_Step ==
  call'.op = "BindLifetimeToScope" =>
    IF call'.address.element_path_ # <<>>
    THEN fatal' = MsgSubElement
    ELSE /\ fatal' = ""
         /\ SelfAfter.allocations_ = Append(SelfBefore.allocations_, call'.address.allocation_)
         /\ SelfAfter.locals_ = SelfBefore.locals_
         /\ SelfAfter.bound_values_ = SelfBefore.bound_values_

C10_BindLifetime == [][C10_Step]_vars

\* BindLifetimeToScope accepted the address of an allocation that an Initialize
\* of the same scope had made.
C10_Witness ==
  /\ fatal = "" /\ call.op = "BindLifetimeToScope"
  /\ call.address.element_path_ = <<>>
  /\ heap[scopes[call.self].heap_].creator[call.address.allocation_] = call.self
  /\ scopes[call.self].allocations_[Len(scopes[call.self].allocations_)]
       = call.address.allocation_

\* C11: a scope's allocations are allocations an Initialize created (its own, or
\* one that reached it by a transfer), and every allocation the scope's own
\* Initialize created, that no other scope owns and that has not been released,
\* is among them.
C11_OwnInitialize ==
  fatal = "" =>
    \A s \in Scopes : Live(s) =>
      /\ \A i \in 1..Len(scopes[s].allocations_) :
           HeapOf(s).creator[scopes[s].allocations_[i]] # 0
      /\ \A h \in Heaps, a \in AllocationIds :
           (/\ heap[h].creator[a] = s
            /\ heap[h].released[a] = 0
            /\ \A t \in Scopes \ {s} : Live(t) => <<h, a>> \notin Owned(scopes[t]))
             => <<h, a>> \in Owned(scopes[s])

\* C12: in every scope every pinned binding is a key of the scope's bindings
\* and is bound to a LocationValue, and no Get has failed its LocationValue
\* assertion.
C12_PinnedIsLocation ==
  /\ fatal # MsgNotLocation
  /\ \A s \in Scopes : Live(s) =>
       \A n \in scopes[s].bound_values_ :
         /\ n \in Keys(scopes[s].locals_)
         /\ ValueOf(scopes[s].locals_, n).kind = "LocationValue"

\* A Merge or a move left its receiver with two bindings, one of them pinned.
C12_Witness ==
  /\ fatal = "" /\ call.op \in {"Merge", "MoveConstruct", "MoveAssign"}
  /\ Len(scopes[call.self].locals_) = 2
  /\ scopes[call.self].bound_values_ # {}

\* C13: a binding pinned with BindAndPin is read with the liveness check in
\* every scope it reaches: after a Merge, a move or a Capture, Get of a binding
\* that was pinned in the scope it came from returns in the receiving scope what
\* it returned there (the stale-reference error when the heap reports the
\* binding not alive).
C13_Step ==
  /\ Returns("Merge") =>
       \A n \in SelfBefore.bound_values_ \cup OtherBefore.bound_values_ :
         \A l \in SourceLocations :
           Get(SelfAfter, HeapAfter, n, l) = Get(HolderBefore(n), HeapBefore, n, l)
  /\ (Returns("MoveConstruct") \/ Returns("MoveAssign")) =>
       \A n \in OtherBefore.bound_values_ :
         \A l \in SourceLocations :
           Get(SelfAfter, HeapAfter, n, l) = Get(OtherBefore, HeapAfter, n, l)
  /\ Returns("Capture") =>
       \A n \in Nodes :
         (FirstWith(call'.other, n) # 0 /\ n \in scopes[FirstWith(call'.other, n)].bound_values_)
           => \A l \in SourceLocations :
                Get(SelfAfter, HeapAfter, n, l) =
                  Get(scopes[FirstWith(call'.other, n)], HeapAfter, n, l)

C13_PinnedCheckedEverywhere == [][C13_Step]_vars

\* C14: the scope Capture returns owns no allocation, so that destroying it
\* releases nothing; the call leaves every scope that existed, the listed ones
\* among them, and the heaps as they were.
C14_Step ==
  Returns("Capture") =>
    /\ SelfAfter.allocations_ = <<>>
    /\ Destroy(SelfAfter.allocations_, HeapAfter) = HeapAfter
    /\ \A i \in 1..Len(call'.other) : scopes'[call'.other[i]] = scopes[call'.other[i]]
    /\ \A s \in Scopes \ {call'.self} : scopes'[s] = scopes[s]
    /\ heap' = heap

C14_CaptureFrame == [][C14_Step]_vars

\* A Capture returned bindings of a listed scope that owns an allocation and
\* has a pinned binding.
C14_Witness ==
  /\ fatal = "" /\ call.op = "Capture"
  /\ scopes[call.self].locals_ # <<>>
  /\ \E i \in 1..Len(call.other) :
       /\ scopes[call.other[i]].allocations_ # <<>>
       /\ scopes[call.other[i]].bound_values_ # {}

\* Runs whose second scope is constructed on either heap, so that scopes of
\* different heaps meet in Merge and in Capture.
InitHeaps == (\E h \in Heaps : ConstructedOn(h)) /\ budget = MaxOps /\ action = NoAction

SpecHeaps == InitHeaps /\ [][Next]_vars

\* C15: Merge of scopes on different heaps ends the process, and so does
\* Capture of an empty vector or of a vector with a scope whose heap is not the
\* first scope's; a Merge or Capture that returns leaves its result on the heap
\* the scopes share.
C15_Step ==
  /\ (call'.op = "Merge" /\ SelfBefore.heap_ # OtherBefore.heap_) => fatal' = MsgHeap
  /\ (call'.op = "Capture" /\ call'.other = <<>>) => fatal' = MsgEmpty
  /\ (/\ call'.op = "Capture"
      /\ \E i \in 1..Len(call'.other) :
           scopes[call'.other[i]].heap_ # scopes[call'.other[1]].heap_)
       => fatal' = MsgHeap
  /\ Returns("Merge") =>
       SelfAfter.heap_ = SelfBefore.heap_ /\ SelfAfter.heap_ = OtherBefore.heap_
  /\ Returns("Capture") =>
       \A i \in 1..Len(call'.other) : SelfAfter.heap_ = scopes[call'.other[i]].heap_

C15_SharedHeap == [][C15_Step]_vars

\* A Capture of scopes on different heaps ended the process.
C15_Witness ==
  /\ fatal = MsgHeap /\ call.op = "Capture" /\ Len(call.other) = 2

\* C16: Bind, BindAndPin, BindValue and Initialize of a binding that has a
\* constant value end the process, and so does BindValue of a LocationValue;
\* no scope ever holds a key that has a constant value.
C16_Step ==
  /\ (/\ call'.op \in {"Bind", "BindAndPin", "BindValue", "Initialize"}
      /\ HasConstantValue(call'.node))
       => fatal' = MsgConstant
  /\ (call'.op = "BindValue" /\ call'.value.kind = "LocationValue")
       => fatal' \in {MsgConstant, MsgLocationKind}
  /\ \A s \in Scopes : \A n \in Keys(scopes'[s].locals_) : ~HasConstantValue(n)

C16_NoConstantNoLocation == [][C16_Step]_vars

\* BindValue of a LocationValue to a binding without constant value ended the
\* process.
C16_Witness ==
  /\ fatal = MsgLocationKind /\ call.op = "BindValue"
  /\ ~HasConstantValue(call.node)

\* Frames to print: every kind, cursors up to MaxPos, up to MaxResults results
\* out of two values, with or without an owned scope (the first scope object).
ResultValues == {IntValue(i) : i \in 1..2}
ResultInputs ==
  UNION {[1..n -> ResultValues] : n \in 0..MaxResults}
Payload(kind) ==
  CASE kind \in {"LocationAction", "ValueExpressionAction", "ExpressionAction"} -> "e"
    [] kind = "WitnessAction" -> "w"
    [] kind = "StatementAction" -> "s"
    [] kind = "DeclarationAction" -> "d"
    [] kind = "TypeInstantiationAction" -> "t"
    [] OTHER -> ""
Frames ==
  {[kind |-> k, payload |-> Payload(k), pos_ |-> p, results_ |-> r, scope_ |-> sc] :
     k \in ActionKinds, p \in 0..MaxPos, r \in ResultInputs, sc \in {0, 1}}

InitActionPrint == Constructed /\ budget = MaxPrintOps /\ action \in Frames

NextActionPrint ==
  \/ \E s \in Scopes, n \in Nodes, v \in ValueInputs : DoBindValue(s, n, v)
  \/ DoActionPrint

SpecActionPrint == InitActionPrint /\ [][NextActionPrint]_vars

\* The cursor marker, and the results joined from the last one backwards.
CursorMarker(pos) == "." \o ToString(pos) \o "."
RECURSIVE Joined(_)
Joined(results) ==
  IF Len(results) = 1 THEN PrintValue(results[1])
  ELSE Joined(SubSeq(results, 1, Len(results) - 1)) \o ", "
         \o PrintValue(results[Len(results)])

\* C17: Action::Print writes the prefix of the kind, then the cursor marker
\* ".<pos>.", then " [[r1, r2, ...]]" with the results in order exactly when
\* there are results, then the rendering of the owned scope exactly when the
\* frame owns one; cursor 2 with results 1 and 2 and no scope gives
\* ".2. [[1, 2]]" after the prefix.
C17_Step ==
  call'.op = "Action::Print" =>
    /\ out' = out \o ActionPrefix(action) \o CursorMarker(action.pos_)
                \o (IF action.results_ = <<>> THEN ""
                    ELSE " [[" \o Joined(action.results_) \o "]]")
                \o (IF action.scope_ = 0 THEN ""
                    ELSE " " \o ScopePrint(scopes[action.scope_]))
    /\ (/\ out = "" /\ action.pos_ = 2 /\ action.scope_ = 0
        /\ action.results_ = <<IntValue(1), IntValue(2)>>)
         => out' = ActionPrefix(action) \o ".2. [[1, 2]]"
    /\ (/\ out = "" /\ action.results_ = <<>> /\ action.scope_ = 0)
         => out' = ActionPrefix(action) \o CursorMarker(action.pos_)
    /\ (/\ out = "" /\ action.kind = "RecursiveAction" /\ action.pos_ = 0
        /\ action.results_ = <<>> /\ action.scope_ # 0
        /\ scopes[action.scope_].locals_ = <<>>)
         => out' = "recursive.0. {}"

C17_ActionPrint == [][C17_Step]_vars

\* A frame at cursor 2 with results 1 and 2 and no scope was printed.
C17_Witness ==
  /\ call.op = "Action::Print" /\ action.kind = "ScopeAction"
  /\ action.pos_ = 2 /\ action.scope_ = 0
  /\ action.results_ = <<IntValue(1), IntValue(2)>>
  /\ out = ".2. [[1, 2]]"

\* Runs that build scopes with the binding calls and print them.
InitScopePrint == Constructed /\ budget = MaxOps /\ action = NoAction

NextScopePrint ==
  \/ \E s \in Scopes, n \in Nodes, a \in Addresses : DoBind(s, n, a)
  \/ \E s \in Scopes, n \in Nodes, a \in Addresses : DoBindAndPin(s, n, a)
  \/ \E s \in Scopes, a \in Addresses : DoBindLifetimeToScope(s, a)
  \/ \E s \in Scopes, n \in Nodes, v \in ResultValues : DoBindValue(s, n, v)
  \/ \E s \in Scopes, n \in Nodes, v \in ResultValues : DoInitialize(s, n, v)
  \/ \E s \in Scopes : DoPrint(s)

SpecScopePrint == InitScopePrint /\ [][NextScopePrint]_vars

\* The "binding: value" pairs of locals joined from the last one backwards.
RECURSIVE JoinedBindings(_)
JoinedBindings(locals) ==
  IF locals = <<>> THEN ""
  ELSE (IF Len(locals) = 1 THEN ""
        ELSE JoinedBindings(SubSeq(locals, 1, Len(locals) - 1)) \o ", ")
         \o PrintNode(locals[Len(locals)].first) \o ": "
         \o PrintValue(locals[Len(locals)].second)

\* C18: RuntimeScope::Print writes the bindings in insertion order as
\* "binding: value" pairs separated by ", " inside braces (a then b bound to 1
\* and 2 give {a: 1, b: 2}); scopes with the same bindings in the same order
\* render the same, whatever they pin or own; the scope is not changed.
C18_Step ==
  call'.op = "Print" =>
    /\ out' = out \o "{" \o JoinedBindings(SelfBefore.locals_) \o "}"
    /\ (/\ out = ""
        /\ SelfBefore.locals_ = <<[first |-> "a", second |-> IntValue(1)],
                                  [first |-> "b", second |-> IntValue(2)]>>)
         => out' = "{a: 1, b: 2}"
    /\ (/\ out = ""
        /\ SelfBefore.locals_ = <<[first |-> "b", second |-> IntValue(2)],
                                  [first |-> "a", second |-> IntValue(1)]>>)
         => out' = "{b: 2, a: 1}"
    /\ \A t \in Scopes :
         scopes[t].locals_ = SelfBefore.locals_ => ScopePrint(scopes[t]) = ScopePrint(SelfBefore)
    /\ \A pinned \in SUBSET Nodes, owned \in {<<>>, <<1>>, <<1, 2>>} :
         ScopePrint([SelfBefore EXCEPT !.bound_values_ = pinned, !.allocations_ = owned])
           = ScopePrint(SelfBefore)
    /\ scopes' = scopes /\ heap' = heap

C18_ScopePrint == [][C18_Step]_vars

\* A scope that bound a to 1 and then b to 2 was printed.
C18_Witness ==
  /\ call.op = "Print" /\ out = "{a: 1, b: 2}"
  /\ Len(scopes[call.self].locals_) = 2

\* C19: Get returns absent, a value or the stale-reference error and changes
\* neither a scope nor a heap; after the stale-reference error the binding is
\* still bound and pinned, and Get returns its value once the heap reports it
\* alive at the bound address; Get of a binding the scope does not hold
\* returns absent whatever the heap has registered for it.
C19_Step ==
  call'.op = "Get" =>
    /\ fatal' = ""
    /\ scopes' = scopes /\ heap' = heap /\ lifecycle' = lifecycle
    /\ ret'.kind \in {"nullopt", "value", "ProgramError"}
    /\ ret'.kind = "ProgramError" =>
         /\ call'.node \in SelfAfter.bound_values_
         /\ call'.node \in Keys(SelfAfter.locals_)
         /\ \A l \in SourceLocations :
              Get(SelfAfter,
                  Registered(HeapAfter, call'.node,
                             ValueOf(SelfAfter.locals_, call'.node).address),
                  call'.node, l)
                = Returned(ValueOf(SelfBefore.locals_, call'.node))
    /\ call'.node \notin Keys(SelfBefore.locals_) =>
         /\ ret' = Absent
         /\ \A x \in Addresses \cup {NoAddress}, l \in SourceLocations :
              Get(SelfBefore, Registered(HeapBefore, call'.node, x), call'.node, l) = Absent

C19_GetPure == [][C19_Step]_vars

\* Get returned absent for a binding that another scope holds pinned.
C19_Witness ==
  /\ fatal = "" /\ call.op = "Get" /\ ret = Absent
  /\ \E t \in Scopes \ {call.self} : Live(t) /\ call.node \in scopes[t].bound_values_

====
